---------------------------- MODULE Spec2Model ----------------------------
(***************************************************************************)
(* Model of openstf/model/objective.py: the optuna objective               *)
(* RegressorObjective (process_tuple, get_trial_parameters, __init__ and   *)
(* __call__), a shared regressor, the study's stop flag and a wall clock.  *)
(*                                                                         *)
(* Times are whole minutes.  A Python float is held as a count of halves   *)
(* (1.5 is 3), an int as itself, so float(2) is the float 4 halves.        *)
(***************************************************************************)
EXTENDS Integers, Sequences, FiniteSets, TLC

(* ------------------------------ bounds --------------------------------- *)
NTrials == 2
MaxClock == 3
MaxSeed == 1
MaxKeys == 2
MaxInt == 2
MaxCols == 2

(* -------------------------- program constants -------------------------- *)
BudgetMinutes == 2

(* ---------------------------- Python values ---------------------------- *)
PyInt(n) == [t |-> "int", v |-> n, s |-> ""]
PyFloat(h) == [t |-> "float", v |-> h, s |-> ""]
PyStr(str) == [t |-> "str", v |-> 0, s |-> str]
PyNone == [t |-> "NoneType", v |-> 0, s |-> ""]

IntValues == {PyInt(n) : n \in 1..MaxInt}
FloatValues == {PyFloat(h) : h \in 2..(2 * MaxInt)}
StrValues == {PyStr("abc"), PyStr("1.5")}
Values == IntValues \cup FloatValues \cup StrValues \cup {PyNone}

NoError == [type |-> "", msg |-> <<>>]
Raise(type, msg) == [type |-> type, msg |-> msg]

(* isinstance(x, float) and isinstance(x, int) *)
IsFloat(x) == x.t = "float"
IsInt(x) == x.t = "int"

(* float(x): an int is widened, a float is itself, a string is parsed and  *)
(* a string that is no number raises ValueError, None raises TypeError.    *)
FloatOf(x) ==
    CASE x.t = "float" -> [ret |-> PyFloat(x.v), raised |-> NoError]
      [] x.t = "int" -> [ret |-> PyFloat(x.v * 2), raised |-> NoError]
      [] x.t = "str" /\ x.s = "1.5" -> [ret |-> PyFloat(3), raised |-> NoError]
      [] x.t = "str" /\ x.s # "1.5" ->
            [ret |-> PyNone,
             raised |-> Raise("ValueError", <<"could not convert string to float">>)]
      [] OTHER ->
            [ret |-> PyNone,
             raised |-> Raise("TypeError", <<"float() argument must be a string or a number">>)]

(* --------------------- the trial's sampling primitives ----------------- *)
(* A trial carries the random state of the search driver; a primitive      *)
(* returns a value of the declared range picked by that state, and rejects *)
(* an empty range.                                                         *)
SuggestFloat(trial, key, low, high, log) ==
    LET call == [prim |-> "suggest_float", key |-> key, low |-> low, high |-> high,
                 logPassed |-> TRUE, log |-> log, choices |-> <<>>]
    IN IF low.v > high.v
       THEN [ret |-> PyNone, raised |-> Raise("ValueError", <<"low > high">>),
             calls |-> <<call>>]
       ELSE [ret |-> PyFloat(low.v + (trial.seed % (high.v - low.v + 1))),
             raised |-> NoError, calls |-> <<call>>]

SuggestInt(trial, key, low, high) ==
    LET call == [prim |-> "suggest_int", key |-> key, low |-> low, high |-> high,
                 logPassed |-> FALSE, log |-> FALSE, choices |-> <<>>]
    IN IF low.v > high.v
       THEN [ret |-> PyNone, raised |-> Raise("ValueError", <<"low > high">>),
             calls |-> <<call>>]
       ELSE [ret |-> PyInt(low.v + (trial.seed % (high.v - low.v + 1))),
             raised |-> NoError, calls |-> <<call>>]

SuggestCategorical(trial, key, choices) ==
    LET call == [prim |-> "suggest_categorical", key |-> key, low |-> PyNone,
                 high |-> PyNone, logPassed |-> FALSE, log |-> FALSE,
                 choices |-> choices]
    IN IF Len(choices) = 0
       THEN [ret |-> PyNone, raised |-> Raise("ValueError", <<"no choices">>),
             calls |-> <<call>>]
       ELSE [ret |-> choices[(trial.seed % Len(choices)) + 1],
             raised |-> NoError, calls |-> <<call>>]

(* ------------------------- search space declarations ------------------- *)
(* value = (tup, log) is a "tuple" declaration, a list is categorical,     *)
(* anything else (here a bare string) is of unsupported shape.             *)
TupleDecl(tup, log) == [shape |-> "tuple", tup |-> tup, log |-> log, items |-> <<>>]
ListDecl(items) == [shape |-> "list", tup |-> <<>>, log |-> FALSE, items |-> items]
StrDecl == [shape |-> "str", tup |-> <<>>, log |-> FALSE, items |-> <<>>]

TupleError == <<"input values for the tuple can be float/float, float/int, int/float, int/int">>
UnpackError == <<"not enough values to unpack (expected 2, got 1)">>
ShapeError == <<"Possible input values: tuple, list">>

(* process_tuple with the float test of line 44 weakened to a conjunction *)
ProcessTupleBothFloat(trial, key, value) ==
    LET tup == value.tup
        log == value.log
    IN IF Len(tup) # 2
       THEN [ret |-> PyNone, raised |-> Raise("ValueError", UnpackError), calls |-> <<>>]
       ELSE LET startValue == tup[1]
                endValue == tup[2]
                fs == FloatOf(startValue)
                fe == FloatOf(endValue)
            IN IF IsFloat(startValue) /\ IsFloat(endValue)
               THEN SuggestFloat(trial, key, fs.ret, fe.ret, log)
               ELSE IF IsInt(startValue) /\ IsInt(endValue)
               THEN SuggestInt(trial, key, startValue, endValue)
               ELSE [ret |-> PyNone, raised |-> Raise("TypeError", TupleError),
                     calls |-> <<>>]

ProcessTuple(trial, key, value) ==
    LET tup == value.tup
        log == value.log
    IN IF Len(tup) # 2
       THEN [ret |-> PyNone, raised |-> Raise("ValueError", UnpackError), calls |-> <<>>]
       ELSE LET startValue == tup[1]
                endValue == tup[2]
                fs == FloatOf(startValue)
                fe == FloatOf(endValue)
            IN IF IsFloat(startValue) \/ IsFloat(endValue)
               THEN IF fs.raised # NoError
                    THEN [ret |-> PyNone, raised |-> fs.raised, calls |-> <<>>]
                    ELSE IF fe.raised # NoError
                    THEN [ret |-> PyNone, raised |-> fe.raised, calls |-> <<>>]
                    ELSE SuggestFloat(trial, key, fs.ret, fe.ret, log)
               ELSE IF IsInt(startValue) /\ IsInt(endValue)
               THEN SuggestInt(trial, key, startValue, endValue)
               ELSE [ret |-> PyNone, raised |-> Raise("TypeError", TupleError),
                     calls |-> <<>>]

(* One pass of the loop body of get_trial_parameters for (key, value).     *)
SampleOne(trial, key, value) ==
    IF value.shape = "tuple" THEN ProcessTuple(trial, key, value)
    ELSE IF value.shape = "list" THEN SuggestCategorical(trial, key, value.items)
    ELSE [ret |-> PyNone, raised |-> Raise("TypeError", ShapeError), calls |-> <<>>]

(* The loop of get_trial_parameters from item i on; acc is param and the   *)
(* primitive calls made so far.  A raise leaves the loop at once.          *)
RECURSIVE TrialParametersFrom(_, _, _, _)
TrialParametersFrom(model_params, trial, i, acc) ==
    IF i > Len(model_params)
    THEN acc
    ELSE LET key == model_params[i].key
             r == SampleOne(trial, key, model_params[i].value)
         IN IF r.raised # NoError
            THEN [param |-> acc.param, raised |-> r.raised, at |-> key,
                  calls |-> acc.calls \o r.calls]
            ELSE TrialParametersFrom(model_params, trial, i + 1,
                    [param |-> (key :> r.ret) @@ acc.param, raised |-> NoError,
                     at |-> "", calls |-> acc.calls \o r.calls])

(* get_trial_parameters that forgets the entry of a categorical key *)
GetTrialParametersDropList(model_params, trial) ==
    LET r == TrialParametersFrom(model_params, trial, 1,
                [param |-> <<>>, raised |-> NoError, at |-> "", calls |-> <<>>])
        lists == {model_params[i].key : i \in {j \in DOMAIN model_params :
                                                 model_params[j].value.shape = "list"}}
    IN [r EXCEPT !.param = [k \in (DOMAIN r.param) \ lists |-> r.param[k]]]

GetTrialParameters(model_params, trial) ==
    TrialParametersFrom(model_params, trial, 1,
        [param |-> <<>>, raised |-> NoError, at |-> "", calls |-> <<>>])


(* ------------------------------- state --------------------------------- *)
VARIABLES
    input_columns,  \* self.input_data: the column names, in order
    model_params,   \* self.model_params: the search space, in dict order
    eval_metric,    \* self.eval_metric
    start_time,     \* self.start_time
    model,          \* self.model: the one regressor the objective holds
    now,            \* datetime.utcnow()
    stop_flag,      \* the study's stop request, set by trial.study.stop()
    tr,             \* the invocations of __call__, one per trial slot
    pt_out,         \* the last call of process_tuple and what it did
    gtp_out         \* the last call of get_trial_parameters and what it did

vars == <<input_columns, model_params, eval_metric, start_time, model, now,
          stop_flag, tr, pt_out, gtp_out>>

Trials == 1..NTrials
Seeds == 0..MaxSeed
KeyNames == <<"eta", "max_depth", "booster", "gamma", "subsample">>
ColumnNames == {"load", "temp", "horizon"}
MetricNames == {"mae", "nosuchmetric"}

(* openstf.metrics.metrics: the names the module defines *)
MetricRegistry == {"mae", "rmse"}

(* the metric of the forecast against test_y, as a number *)
MetricValue(name, forecast) == Cardinality(DOMAIN forecast)

(* split_data_train_validation_test: the folds keep the columns *)
SplitTrainColumns(columns) == columns

(* self.model.set_params: the given keys are set, the others kept *)
SetParamsOf(params, param) == param @@ params

NoOutcome == [kind |-> "", value |-> 0, error |-> NoError]
Returned(kind, value) == [kind |-> kind, value |-> value, error |-> NoError]
Raised(type, msg) == [kind |-> "raised", value |-> 0, error |-> Raise(type, msg)]

IdleTrial == [pc |-> "idle", elapsed |-> 0, did |-> <<>>, param |-> <<>>,
              outcome |-> NoOutcome]

ColumnError == <<"Column order in train input data not as expected, could not train a model!">>

(* --------------------------- declarations in use ----------------------- *)
Entry(i, value) == [key |-> KeyNames[i], value |-> value]
SpaceOf(decls) == [i \in DOMAIN decls |-> Entry(i, decls[i])]

BoundTuples == {<<a>> : a \in Values} \cup (Values \X Values)
TupleDecls == {TupleDecl(tup, log) : tup \in BoundTuples, log \in BOOLEAN}

SomeDecls ==
    { TupleDecl(<<PyInt(1), PyInt(MaxInt)>>, FALSE),
      TupleDecl(<<PyFloat(2), PyInt(MaxInt)>>, TRUE),
      TupleDecl(<<PyInt(MaxInt), PyInt(1)>>, FALSE),
      TupleDecl(<<PyStr("abc"), PyStr("1.5")>>, FALSE),
      TupleDecl(<<PyStr("abc"), PyFloat(2)>>, FALSE),
      ListDecl(<<PyStr("abc"), PyStr("1.5")>>),
      ListDecl(<<>>),
      StrDecl }

DeclSeqs(n) == UNION {[1..m -> SomeDecls] : m \in 0..n}
SamplerSpaces == {SpaceOf(d) : d \in DeclSeqs(MaxKeys)}
                    \cup {SpaceOf(<<d>>) : d \in TupleDecls}

TrialSpaces ==
    { SpaceOf(<<TupleDecl(<<PyFloat(2), PyInt(MaxInt)>>, FALSE),
                TupleDecl(<<PyInt(1), PyInt(MaxInt)>>, FALSE)>>),
      SpaceOf(<<ListDecl(<<PyStr("abc"), PyStr("1.5")>>), StrDecl>>) }

(* column lists by their first and last name; the columns between them,   *)
(* which the objective does not look at, are features                      *)
ColumnLists ==
    {c \in UNION {[1..m -> ColumnNames] : m \in 0..MaxCols} :
        \A i \in 2..(Len(c) - 1) : c[i] = "temp"}

NotCalled == [called |-> FALSE, key |-> "", value |-> StrDecl, seed |-> 0,
              ret |-> PyNone, param |-> <<>>, raised |-> NoError, at |-> "",
              calls |-> <<>>]

(* ------------------------------ __init__ ------------------------------- *)
Construct(columns, space, metric, start) ==
    /\ input_columns = columns
    /\ model_params = space
    /\ eval_metric = metric
    /\ start_time = start
    /\ model = [params |-> <<>>, fitted |-> FALSE, fit_params |-> <<>>]
    /\ now = start
    /\ stop_flag = FALSE
    /\ tr = [t \in Trials |-> IdleTrial]
    /\ pt_out = NotCalled
    /\ gtp_out = NotCalled

Init ==
    \E columns \in ColumnLists, space \in TrialSpaces, metric \in MetricNames :
        Construct(columns, space, metric, 0)

InitSampler ==
    \E space \in SamplerSpaces :
        Construct(<<"load", "horizon">>, space, "mae", 0)

(* ------------------------------ __call__ ------------------------------- *)
(* the invocation ends: its locals are gone, what it did and its outcome   *)
(* are kept                                                                *)
Done(t, did, outcome) ==
    tr' = [tr EXCEPT ![t] = [IdleTrial EXCEPT !.pc = "done", !.did = did,
                                              !.outcome = outcome]]

(* the search driver calls the objective with a fresh trial *)
Invoke(t) ==
    /\ tr[t].pc \in {"idle", "done"}
    /\ tr' = [tr EXCEPT ![t] = [IdleTrial EXCEPT !.pc = "elapsed"]]
    /\ UNCHANGED <<input_columns, model_params, eval_metric, start_time, model,
                   now, stop_flag, pt_out, gtp_out>>

OverBudgetInclusive(elapsed) == elapsed >= BudgetMinutes

OverBudget(elapsed) == elapsed > BudgetMinutes

(* the budget check that aborts the trial it runs in *)
CheckElapsedAborts(t) ==
    /\ tr[t].pc = "elapsed"
    /\ LET elapsed == now - start_time
       IN IF OverBudget(elapsed)
          THEN /\ stop_flag' = TRUE
               /\ tr' = [tr EXCEPT ![t] = [IdleTrial EXCEPT !.pc = "done",
                                            !.did = <<"stop">>,
                                            !.outcome = Raised("TimeoutError", <<"budget">>)]]
          ELSE /\ stop_flag' = stop_flag
               /\ tr' = [tr EXCEPT ![t].pc = "split", ![t].elapsed = elapsed]
    /\ UNCHANGED <<input_columns, model_params, eval_metric, start_time, model,
                   now, pt_out, gtp_out>>

(* the budget check that restarts the budget once it has run out *)
CheckElapsedRestarts(t) ==
    /\ tr[t].pc = "elapsed"
    /\ LET elapsed == now - start_time
       IN /\ stop_flag' = (stop_flag \/ OverBudget(elapsed))
          /\ start_time' = IF OverBudget(elapsed) THEN now ELSE start_time
          /\ tr' = [tr EXCEPT ![t].pc = "split", ![t].elapsed = elapsed,
                              ![t].did = IF OverBudget(elapsed)
                                         THEN <<"stop">> ELSE <<>>]
    /\ UNCHANGED <<input_columns, model_params, eval_metric, model,
                   now, pt_out, gtp_out>>

(* lines 117-119 *)
CheckElapsed(t) ==
    /\ tr[t].pc = "elapsed"
    /\ LET elapsed == now - start_time
       IN /\ stop_flag' = (stop_flag \/ OverBudget(elapsed))
          /\ tr' = [tr EXCEPT ![t].pc = "split", ![t].elapsed = elapsed,
                              ![t].did = IF OverBudget(elapsed)
                                         THEN <<"stop">> ELSE <<>>]
    /\ UNCHANGED <<input_columns, model_params, eval_metric, start_time, model,
                   now, pt_out, gtp_out>>

BadColumnOrderBoth(columns) ==
    columns[1] # "load" /\ columns[Len(columns)] # "horizon"

(* line 130 *)
BadColumnOrder(columns) ==
    columns[1] # "load" \/ columns[Len(columns)] # "horizon"

(* lines 122-142: the split, the column test and the x, y slices; elapsed  *)
(* is not read again                                                      *)
Split(t) ==
    /\ tr[t].pc = "split"
    /\ LET train_columns == SplitTrainColumns(input_columns)
           did == tr[t].did \o <<"split", "columns">>
       IN IF Len(train_columns) = 0
          THEN Done(t, did, Raised("IndexError", <<"index 0 is out of bounds">>))
          ELSE IF BadColumnOrder(train_columns)
          THEN Done(t, did, Raised("RuntimeError", ColumnError))
          ELSE tr' = [tr EXCEPT ![t].pc = "sample", ![t].elapsed = 0,
                             ![t].did = did]
    /\ UNCHANGED <<input_columns, model_params, eval_metric, start_time, model,
                   now, stop_flag, pt_out, gtp_out>>

(* lines 145-148: the trial's parameters, picked by the random state the  *)
(* driver gave the trial, and its pruning callback                        *)
Sample(t) ==
    /\ tr[t].pc = "sample"
    /\ \E seed \in Seeds :
          LET r == GetTrialParameters(model_params, [seed |-> seed])
          IN IF r.raised # NoError
             THEN Done(t, tr[t].did \o <<"sample">>,
                       [kind |-> "raised", value |-> 0, error |-> r.raised])
             ELSE tr' = [tr EXCEPT ![t].pc = "set_params", ![t].param = r.param,
                            ![t].did = tr[t].did \o <<"sample", "pruning_callback">>]
    /\ UNCHANGED <<input_columns, model_params, eval_metric, start_time, model,
                   now, stop_flag, pt_out, gtp_out>>

(* line 151 *)
SetParams(t) ==
    /\ tr[t].pc = "set_params"
    /\ model' = [model EXCEPT !.params = SetParamsOf(model.params, tr[t].param)]
    /\ tr' = [tr EXCEPT ![t].pc = "fit", ![t].did = tr[t].did \o <<"set_params">>]
    /\ UNCHANGED <<input_columns, model_params, eval_metric, start_time,
                   now, stop_flag, pt_out, gtp_out>>

(* lines 154-162: the backend fits the model as configured, or fails *)
Fit(t) ==
    /\ tr[t].pc = "fit"
    /\ \E ok \in BOOLEAN :
          IF ok
          THEN /\ model' = [model EXCEPT !.fitted = TRUE, !.fit_params = model.params]
               /\ tr' = [tr EXCEPT ![t].pc = "predict",
                                   ![t].did = tr[t].did \o <<"fit">>]
          ELSE /\ model' = model
               /\ Done(t, tr[t].did \o <<"fit">>,
                       Raised("BackendError", <<"fit failed">>))
    /\ UNCHANGED <<input_columns, model_params, eval_metric, start_time,
                   now, stop_flag, pt_out, gtp_out>>

(* lines 164-171: the forecast of the model as last fitted, then the      *)
(* metric; an unknown metric name is printed and nothing is returned      *)
Predict(t) ==
    /\ tr[t].pc = "predict"
    /\ LET forecast_y == model.fit_params
           did == tr[t].did \o <<"predict", "metric">>
       IN IF eval_metric \in MetricRegistry
          THEN Done(t, did, Returned("loss", MetricValue(eval_metric, forecast_y)))
          ELSE Done(t, did, Returned("None", 0))
    /\ UNCHANGED <<input_columns, model_params, eval_metric, start_time, model,
                   now, stop_flag, pt_out, gtp_out>>

(* the wall clock moves on *)
Tick ==
    /\ now < MaxClock
    /\ now' = now + 1
    /\ UNCHANGED <<input_columns, model_params, eval_metric, start_time, model,
                   stop_flag, tr, pt_out, gtp_out>>

Next ==
    \/ Tick
    \/ \E t \in Trials :
          \/ Invoke(t)
          \/ CheckElapsed(t)
          \/ Split(t)
          \/ Sample(t)
          \/ SetParams(t)
          \/ Fit(t)
          \/ Predict(t)

Spec == Init /\ [][Next]_vars

(* ------------------- the sampler, called on its own -------------------- *)
CallProcessTuple ==
    /\ \E i \in DOMAIN model_params, seed \in Seeds :
          /\ model_params[i].value.shape = "tuple"
          /\ LET r == ProcessTuple([seed |-> seed], model_params[i].key,
                                   model_params[i].value)
             IN pt_out' = [NotCalled EXCEPT !.called = TRUE,
                              !.key = model_params[i].key,
                              !.value = model_params[i].value, !.seed = seed,
                              !.ret = r.ret, !.raised = r.raised, !.calls = r.calls]
    /\ UNCHANGED <<input_columns, model_params, eval_metric, start_time, model,
                   now, stop_flag, tr, gtp_out>>

CallGetTrialParameters ==
    /\ \E seed \in Seeds :
          LET r == GetTrialParameters(model_params, [seed |-> seed])
          IN gtp_out' = [NotCalled EXCEPT !.called = TRUE, !.seed = seed,
                            !.param = r.param, !.raised = r.raised, !.at = r.at,
                            !.calls = r.calls]
    /\ UNCHANGED <<input_columns, model_params, eval_metric, start_time, model,
                   now, stop_flag, tr, pt_out>>

NextSampler == CallProcessTuple \/ CallGetTrialParameters

SpecSampler == InitSampler /\ [][NextSampler]_vars

(* ------------------------------ properties ----------------------------- *)

(* C1: nothing is done before the budget check; when the check is made and *)
(* the split has not begun, the stop has been signalled if and only if the *)
(* elapsed time exceeds the 2-minute budget, and no later step of the      *)
(* invocation signals it; the stop flag of the study is raised by nothing  *)
(* but a budget check made over budget.                                    *)
C1_StopBeforeAnyWork ==
    /\ [](\A t \in Trials :
            /\ tr[t].pc = "elapsed" => tr[t].did = <<>>
            /\ tr[t].pc = "split" =>
                  IF tr[t].elapsed > BudgetMinutes
                  THEN stop_flag /\ tr[t].did = <<"stop">>
                  ELSE tr[t].did = <<>>
            /\ \A i \in 2..Len(tr[t].did) : tr[t].did[i] # "stop")
    /\ [][stop_flag' # stop_flag =>
            \E t \in Trials : /\ tr[t].pc = "elapsed"
                              /\ tr'[t].pc # "elapsed"
                              /\ now - start_time > BudgetMinutes]_vars

C1_Witness ==
    \E t \in Trials : /\ tr[t].pc = "split"
                      /\ tr[t].elapsed > BudgetMinutes
                      /\ tr[t].did = <<"stop">>
                      /\ stop_flag

(* C2: an invocation that signalled the stop is not ended by it: it performs *)
(* its split, and if it raises, the error is that of its column check, its  *)
(* sampling or its fit; otherwise it has run every step through the metric  *)
(* step, and returns the loss whenever the metric name resolves.            *)
C2_BudgetNeverAborts ==
    \A t \in Trials :
        (tr[t].pc = "done" /\ Len(tr[t].did) >= 1 /\ tr[t].did[1] = "stop") =>
            LET did == tr[t].did
                out == tr[t].outcome
                last == did[Len(did)]
            IN /\ Len(did) >= 3
               /\ did[2] = "split" /\ did[3] = "columns"
               /\ out.kind = "raised" =>
                     \/ last = "columns" /\ out.error.type \in {"IndexError", "RuntimeError"}
                     \/ last = "sample" /\ out.error.type \in {"TypeError", "ValueError"}
                     \/ last = "fit" /\ out.error.type = "BackendError"
               /\ out.kind # "raised" =>
                     /\ did = <<"stop", "split", "columns", "sample", "pruning_callback",
                                "set_params", "fit", "predict", "metric">>
                     /\ eval_metric \in {"mae", "rmse"} => out.kind = "loss"

C2_Witness ==
    \E t \in Trials : /\ tr[t].pc = "done"
                      /\ tr[t].did[1] = "stop"
                      /\ tr[t].outcome.kind = "loss"
                      /\ tr[t].did[Len(tr[t].did)] = "metric"

(* C3: no step writes start_time, and once the stop has been signalled,     *)
(* every budget check made from then on finds the budget exceeded and       *)
(* signals the stop again.                                                  *)
C3_StopIsMonotonic ==
    [][/\ start_time' = start_time
       /\ \A t \in Trials :
             (stop_flag /\ tr[t].pc = "elapsed" /\ tr'[t].pc # "elapsed") =>
                 /\ tr'[t].elapsed > BudgetMinutes
                 /\ tr'[t].did = <<"stop">>]_vars

C3_Witness ==
    \E t1, t2 \in Trials :
        /\ t1 # t2
        /\ tr[t1].pc = "done" /\ tr[t1].did[1] = "stop"
        /\ tr[t1].outcome.kind = "loss"
        /\ tr[t2].pc = "split" /\ tr[t2].did = <<"stop">>
        /\ tr[t2].elapsed = now - start_time
        /\ now = MaxClock

(* C4: with a first column other than load or a last column other than     *)
(* horizon, an invocation that is past its split has failed with the       *)
(* RuntimeError of the column test, having done nothing but the budget     *)
(* check and the split; the regressor is as it was constructed.            *)
C4_BadColumnsFailBeforeSampling ==
    (Len(input_columns) > 0 /\ (input_columns[1] # "load"
                                  \/ input_columns[Len(input_columns)] # "horizon")) =>
        /\ model = [params |-> <<>>, fitted |-> FALSE, fit_params |-> <<>>]
        /\ \A t \in Trials :
              tr[t].pc \notin {"idle", "elapsed", "split"} =>
                  /\ tr[t].pc = "done"
                  /\ tr[t].outcome.kind = "raised"
                  /\ tr[t].outcome.error.type = "RuntimeError"
                  /\ tr[t].param = <<>>
                  /\ \A i \in 1..Len(tr[t].did) :
                        tr[t].did[i] \in {"stop", "split", "columns"}

C4_Witness ==
    \E t \in Trials : /\ tr[t].pc = "done"
                      /\ input_columns = <<"load", "temp">>
                      /\ tr[t].outcome.error.type = "RuntimeError"

(* C5: an invocation that reaches its metric step with a metric name that  *)
(* does not resolve ends with an error, and an invocation that ends without *)
(* an error returns a loss.                                                 *)
C5_UnknownMetricFails ==
    \A t \in Trials :
        tr[t].pc = "done" =>
            /\ (tr[t].did[Len(tr[t].did)] = "metric" /\ eval_metric \notin {"mae", "rmse"})
                  => tr[t].outcome.kind = "raised"
            /\ tr[t].outcome.kind # "raised" => tr[t].outcome.kind = "loss"

(* C6: process_tuple on ((lo, hi), log) with numeric bounds: with a float  *)
(* bound it makes the one call suggest_float(key, float(lo), float(hi),    *)
(* log=log); with two int bounds the one call suggest_int(key, lo, hi),    *)
(* without the log flag; a value it returns is of that kind and lies in    *)
(* [lo, hi].                                                               *)
C6_PairKinds ==
    (pt_out.called /\ Len(pt_out.value.tup) = 2) =>
        LET lo == pt_out.value.tup[1]
            hi == pt_out.value.tup[2]
            loH == IF lo.t = "int" THEN 2 * lo.v ELSE lo.v
            hiH == IF hi.t = "int" THEN 2 * hi.v ELSE hi.v
        IN ({lo.t, hi.t} \subseteq {"int", "float"}) =>
              IF lo.t = "float" \/ hi.t = "float"
              THEN /\ pt_out.calls
                        = <<[prim |-> "suggest_float", key |-> pt_out.key,
                             low |-> [t |-> "float", v |-> loH, s |-> ""],
                             high |-> [t |-> "float", v |-> hiH, s |-> ""],
                             logPassed |-> TRUE, log |-> pt_out.value.log,
                             choices |-> <<>>]>>
                   /\ pt_out.raised.type = "" =>
                         /\ pt_out.ret.t = "float"
                         /\ loH <= pt_out.ret.v /\ pt_out.ret.v <= hiH
              ELSE /\ pt_out.calls
                        = <<[prim |-> "suggest_int", key |-> pt_out.key,
                             low |-> lo, high |-> hi,
                             logPassed |-> FALSE, log |-> FALSE,
                             choices |-> <<>>]>>
                   /\ pt_out.raised.type = "" =>
                         /\ pt_out.ret.t = "int"
                         /\ lo.v <= pt_out.ret.v /\ pt_out.ret.v <= hi.v

C6_Witness ==
    /\ pt_out.called
    /\ Len(pt_out.value.tup) = 2
    /\ pt_out.value.tup[1].t = "float"
    /\ pt_out.value.tup[2].t = "int"
    /\ pt_out.value.log
    /\ pt_out.raised.type = ""
    /\ pt_out.ret.t = "float"
    /\ pt_out.ret.v > pt_out.value.tup[1].v

(* C7: get_trial_parameters on a search space holding a declaration that   *)
(* is neither a pair nor a list raises a TypeError whose message names the *)
(* key of such a declaration.                                              *)
C7_ShapeErrorNamesKey ==
    LET bad == {i \in DOMAIN model_params :
                    model_params[i].value.shape \notin {"tuple", "list"}}
    IN (gtp_out.called /\ bad # {}) =>
          /\ gtp_out.raised.type = "TypeError"
          /\ \E i \in bad, j \in DOMAIN gtp_out.raised.msg :
                gtp_out.raised.msg[j] = model_params[i].key

(* C8: process_tuple on a pair declaration whose bounds are not both int   *)
(* or float raises its own TypeError and calls no sampling primitive.      *)
C8_NonNumericPairRejected ==
    (pt_out.called
       /\ ~(/\ Len(pt_out.value.tup) = 2
            /\ {pt_out.value.tup[i].t : i \in DOMAIN pt_out.value.tup}
                  \subseteq {"int", "float"})) =>
        /\ pt_out.raised.type = "TypeError"
        /\ pt_out.raised.msg = TupleError
        /\ pt_out.calls = <<>>

(* C9: when get_trial_parameters returns, the mapping's keys are exactly   *)
(* the keys of the search space, and one primitive call was made per key,  *)
(* in the order of the search space.                                       *)
C9_OneEntryOneCallPerKey ==
    (gtp_out.called /\ gtp_out.raised.type = "") =>
        /\ DOMAIN gtp_out.param = {model_params[i].key : i \in DOMAIN model_params}
        /\ Len(gtp_out.calls) = Len(model_params)
        /\ \A i \in DOMAIN model_params : gtp_out.calls[i].key = model_params[i].key

C9_Witness ==
    /\ gtp_out.called
    /\ gtp_out.raised.type = ""
    /\ Len(model_params) = MaxKeys
    /\ \E i, j \in DOMAIN model_params : /\ model_params[i].value.shape = "list"
                                         /\ model_params[j].value.shape = "tuple"

(* C10: a trial about to fit finds the model configured with the           *)
(* parameters that trial sampled, and a trial about to predict finds the   *)
(* model fitted with them.                                                 *)
C10_FitUsesOwnParameters ==
    \A t \in Trials :
        /\ tr[t].pc = "fit" => model.params = tr[t].param
        /\ tr[t].pc = "predict" => model.fit_params = tr[t].param

=============================================================================
